---- MODULE Spec2Model ----
(***************************************************************************)
(* Barcode capture pipeline of the pantry frontend (frontend/app/barcode). *)
(*                                                                         *)
(* The page is built from React hooks.  Each hook is modelled by its       *)
(* state (useState / useRef cells) and one action per function it          *)
(* returns; an async function is cut at its awaits, so each action is one  *)
(* run-to-completion piece of JavaScript.                                  *)
(*                                                                         *)
(*   useBarcodeScannerState   Scanner State Controller                     *)
(*   useManualBarcodeCapture  Manual Capture Coordinator                   *)
(*   useDetectionFeedback     Detection Feedback Controller                *)
(*   useCamera                Camera Session Manager                       *)
(*   useHtml5Scanner          Library Scanner Adapter (Html5Qrcode)        *)
(*   BarcodePage              Page Composition Layer (mount, retry)        *)
(*   ResultsView              confirmation / edit view (save flow)         *)
(*   DashboardPage            item list: fetch, search, quick updates      *)
(*                                                                         *)
(* Time is in milliseconds.  null is the string "null" for string cells    *)
(* and 0 for object references (streams, scanner instances, timers).       *)
(***************************************************************************)
EXTENDS Integers, Sequences, FiniteSets, TLC

Null == "null"

\* ---- bounds of the model ------------------------------------------------
StartTime == 10000      \* Date.now() when the hooks are constructed
MaxTime == 12500        \* the clock stops here
MaxCaptures == 3        \* capture gestures per run
MaxPulses == 3          \* direct feedback pulses per run (SpecFeedback)
MaxCamCalls == 2        \* initializeCamera calls per run
MaxScanners == 2        \* Html5Qrcode instances per run
MaxClearCalls == 2      \* clearScanner calls per run
MaxStartCalls == 3      \* initializeHtml5Scanner calls per run
MaxStopCalls == 2       \* direct stopCamera calls per run (SpecCamera)
MaxRetries == 2         \* handleRetry calls per run
MaxPageCaptures == 3    \* capture gestures per run of the whole page
MaxSaves == 2           \* createItem requests per run
MaxDecodes == 2         \* decode callbacks per run
MaxFetches == 3         \* getItems requests per run
MaxUpdates == 2         \* updateItem requests per run

\* ---- program constants --------------------------------------------------
ThrottleMs == 2000
FlashMs == 500
InitDelayMs == 100
SaveDelayMs == 2000
Codes == {"036000291452", "012345678905"}
ErrCouldNotRead == "Could not read the barcode. Please try again."
ErrCapturePrefix == "Failed to capture barcode: "
ErrNoContext == "Could not get canvas context"
ErrNetwork == "API error: Internal Server Error"
ErrPause == "Cannot pause, scanner is not scanning."
ErrCamera == "Failed to access camera. Please ensure you have granted camera permissions."

VARIABLES
  now,                  \* Date.now()
  \* useBarcodeScannerState
  barcodeCode, loading, processing, lastProcessedTimeRef,
  \* useDetectionFeedback
  barcodeDetected, detectionFlashRef, timers,
  \* useCamera
  cameraActive, error, detectionMethod,
  videoRef,             \* videoRef.current is an element
  srcObject,            \* videoRef.current.srcObject (a stream, 0 = none)
  listeners,            \* handleCanPlay listeners on the video element
  canplayFired,         \* the element has emitted canplay for srcObject
  tracks,               \* stream -> "none" | "live" | "stopped"
  camPending,           \* initializeCamera calls awaiting getUserMedia
  \* useHtml5Scanner
  html5ScannerRef, initializingRef,
  scanners,             \* instance -> lifecycle state inside the library
  startPending,         \* instances whose scanner.start() is awaited
  clearPending,         \* clearScanner calls awaiting stop(): the instances
  container,            \* #barcode-scanner-container is in the DOM
  attached,             \* the instances constructed on that element
  \* observation (not program state)
  log,                  \* one record per capture gesture
  pulses,               \* showDetectionFeedback invocations
  lastPulseAt,          \* Date.now() at the latest of them
  stopCalls,            \* stopCamera invocations
  gumCalls,             \* getUserMedia invocations
  camCalls,             \* initializeCamera invocations
  startCalls,           \* initializeHtml5Scanner invocations
  clearCalls,           \* clearScanner invocations
  resetCalls,           \* resetState invocations
  sinceClear,           \* instances created since clearScanner last ran
                        \* (was called, or resumed from its await)
  \* BarcodePage
  route,                \* "barcode", or where router.push went
  token,                \* localStorage holds an accessToken
  mounted,              \* the mount effect has run
  effectActive,         \* the adapter's effect ran with detectionMethodActive
  pageTimers,           \* pending setTimeout(initializeHtml5Scanner, 100)
  retryCalls,           \* handleRetry invocations (observation)
  \* ResultsView
  step, saving, success, viewError,
  viewLoading,          \* ResultsView's own loading cell (lookup in flight)
  savePc,               \* where handleSaveItem is: "idle", "create", "add"
  saveTimers,           \* pending setTimeout(..., 2000) of handleSaveItem
  saveCalls,            \* createItem requests sent (observation)
  scanAnotherCalls,     \* onScanAnother invocations (observation)
  itemsCreated,         \* backend: items created by POST /items/
  itemsOwned,           \* backend: of those, linked to the user by add-to-user
  decodes,              \* per instance: decode callbacks delivered (observation)
  autoLookups,          \* per instance: onDetection lookups in flight
  user,                 \* DashboardPage: profile loaded
  pageLoading,          \* DashboardPage: loading (profile request pending)
  dashError,            \* DashboardPage: error
  server,               \* backend: the user's items, by id
  currentPage,
  searchQuery,
  selectedCategory,
  items,                \* DashboardPage: the displayed list
  totalItems,
  itemsLoading,
  fetches,              \* getItems requests in flight
  reqSeq,               \* getItems requests sent (observation)
  itemsFrom,            \* request whose response is displayed (observation)
  maxOk,                \* newest request answered with success (observation)
  updates,              \* updateItem requests in flight, with their closures
  updSeq,               \* updateItem requests sent (observation)
  sentQty,              \* quantities sent by the inline controls (observation)
  isUpdatingId,
  isSavingEdit,
  editingItem,          \* id of the item in the edit modal, 0 for null
  ev                    \* the step just taken

stateVars == <<barcodeCode, loading, processing, lastProcessedTimeRef>>
fbVars == <<barcodeDetected, detectionFlashRef, timers>>
camVars == <<cameraActive, detectionMethod, videoRef, srcObject, listeners,
             canplayFired, tracks, camPending>>
scanVars == <<html5ScannerRef, initializingRef, scanners, startPending,
              clearPending, container, attached>>
countVars == <<pulses, lastPulseAt, stopCalls, gumCalls, camCalls, startCalls, clearCalls,
               resetCalls, sinceClear>>
pageVars == <<route, token, mounted, effectActive, pageTimers, retryCalls>>
serverVars == <<itemsCreated, itemsOwned>>
viewVars == <<step, saving, success, viewError, viewLoading, savePc, saveTimers,
              saveCalls, scanAnotherCalls, serverVars>>
decodeVars == <<decodes, autoLookups>>
dashSession == <<user, pageLoading, dashError, server>>
dashQuery == <<currentPage, searchQuery, selectedCategory>>
dashFetch == <<fetches, reqSeq, itemsLoading>>
dashList == <<items, totalItems, itemsFrom, maxOk>>
dashUpd == <<updates, updSeq, sentQty, isUpdatingId, isSavingEdit, editingItem>>
dashVars == <<dashSession, dashQuery, dashFetch, dashList, dashUpd>>
vars == <<now, stateVars, fbVars, camVars, error, scanVars, log, countVars,
          pageVars, viewVars, decodeVars, dashVars, ev>>

\* what a step remembers of the state it started from
Pre == [barcodeCode |-> barcodeCode, error |-> error,
        cameraActive |-> cameraActive, detectionMethod |-> detectionMethod,
        pulses |-> pulses, stopCalls |-> stopCalls, gumCalls |-> gumCalls,
        tracks |-> tracks, html5ScannerRef |-> html5ScannerRef,
        scanners |-> scanners, barcodeDetected |-> barcodeDetected,
        hasStream |-> (videoRef /\ srcObject # 0), srcObject |-> srcObject,
        camCalls |-> camCalls, clearCalls |-> clearCalls,
        startCalls |-> startCalls, saving |-> saving, success |-> success,
        saveTimers |-> saveTimers, saveCalls |-> saveCalls,
        scanAnotherCalls |-> scanAnotherCalls, retryCalls |-> retryCalls,
        container |-> container, initializingRef |-> initializingRef,
        startPending |-> startPending, pageTimers |-> pageTimers,
        itemsCreated |-> itemsCreated, itemsOwned |-> itemsOwned]

Streams == 1..(MaxCamCalls + 1)
Scanners == 1..(MaxScanners + 1)
Live == {"starting", "running", "paused"}

\* ---- state after construction (useState / useRef initial values) --------
InitStateHook ==
  /\ now = StartTime
  /\ barcodeCode = Null /\ loading = FALSE /\ processing = FALSE
  /\ lastProcessedTimeRef = 0
  /\ log = <<>> /\ resetCalls = 0

InitFeedback ==
  /\ barcodeDetected = FALSE /\ detectionFlashRef = 0 /\ timers = {}
  /\ pulses = 0 /\ lastPulseAt = 0

InitCamera ==
  /\ cameraActive = FALSE /\ error = Null /\ detectionMethod = Null
  /\ srcObject = 0 /\ listeners = 0 /\ canplayFired = FALSE
  /\ tracks = [s \in Streams |-> "none"]
  /\ camPending = 0
  /\ stopCalls = 0 /\ gumCalls = 0 /\ camCalls = 0

InitScanner ==
  /\ html5ScannerRef = 0 /\ initializingRef = FALSE
  /\ scanners = [i \in Scanners |-> "none"]
  /\ startPending = {} /\ clearPending = <<>> /\ attached = {}
  /\ startCalls = 0 /\ clearCalls = 0 /\ sinceClear = {}

\* the page with a token, its mount effect not modelled
InitPageHooks ==
  /\ route = "barcode" /\ token = TRUE /\ mounted = TRUE
  /\ effectActive = FALSE /\ pageTimers = <<>> /\ retryCalls = 0

\* ResultsView as it mounts
InitDecode ==
  /\ decodes = [i \in Scanners |-> 0]
  /\ autoLookups = [i \in Scanners |-> 0]

\* ---- DashboardPage: values and construction -----------------------------
ItemIds == {1, 2, 3}
Categories == {"dairy", "other"}
Queries == {"", "a"}
\* useState(20), scaled to the three items of the model
PageSize == 2

\* a JavaScript number: a count of halves, or one of the non-finite values
Num(n) == [kind |-> "finite", halves |-> 2 * n]
NonFinite == {[kind |-> k, halves |-> 0] : k \in {"NaN", "Infinity", "-Infinity"}}
TypedNumbers ==
  {[kind |-> "finite", halves |-> h] : h \in (-1)..5} \cup NonFinite
NoNumber == [kind |-> "none", halves |-> 0]
\* quantities stored when the dashboard opens; 0 is an absent quantity field
InitialQuantities == {0, 2}

\* the backend's items
ServerItems(qty) ==
  [i \in ItemIds |-> [id |-> i,
                      title |-> IF i % 2 = 1 THEN "a" ELSE "b",
                      category |-> IF i % 2 = 1 THEN "dairy" ELSE "other",
                      quantity |-> qty[i]]]

\* DashboardPage after construction: the profile request is pending
DashboardConstructed(qty) ==
  /\ user = FALSE /\ pageLoading = TRUE /\ dashError = ""
  /\ server = ServerItems(qty)
  /\ currentPage = 1 /\ searchQuery = "" /\ selectedCategory = ""
  /\ items = <<>> /\ totalItems = 0 /\ itemsLoading = FALSE
  /\ fetches = {} /\ reqSeq = 0 /\ itemsFrom = 0 /\ maxOk = 0
  /\ updates = {} /\ updSeq = 0 /\ sentQty = {}
  /\ isUpdatingId = 0 /\ isSavingEdit = FALSE /\ editingItem = 0

InitDashboardPage == DashboardConstructed([i \in ItemIds |-> 1])

InitView ==
  /\ step = "confirm-upc" /\ saving = FALSE /\ success = FALSE
  /\ viewError = Null /\ viewLoading = FALSE
  /\ savePc = "idle" /\ saveTimers = {}
  /\ saveCalls = 0 /\ scanAnotherCalls = 0
  /\ itemsCreated = 0 /\ itemsOwned = 0

\* the page at mount: CameraView renders the video element (no strategy yet)
Init ==
  /\ InitStateHook /\ InitFeedback /\ InitCamera /\ InitScanner
  /\ InitPageHooks /\ InitView /\ InitDecode /\ InitDashboardPage
  /\ videoRef = TRUE
  /\ container = FALSE
  /\ ev = [op |-> "init"]

\* ---- the clock and the timers (setTimeout) ------------------------------
Tick(d) ==
  /\ now + d <= MaxTime
  /\ \A t \in timers \cup saveTimers : t.due >= now + d
  /\ \A j \in 1..Len(pageTimers) : pageTimers[j].due >= now + d
  /\ now' = now + d
  /\ ev' = [op |-> "tick"]
  /\ UNCHANGED <<pageVars, viewVars, decodeVars, dashVars, stateVars, fbVars, camVars, error, scanVars, log, countVars>>

\* ---- useDetectionFeedback -----------------------------------------------
\* the pending timer left running when a new one is set
PendingNotCleared(ts, ref) == ts

\* clearTimeout(detectionFlashRef.current) before the new setTimeout
PendingAfterPulse(ts, ref) == {t \in ts : t.id # ref}

NextTimerId == pulses + 1

\* showDetectionFeedback: the cells it writes, as a record of new values
FeedbackAfterPulse ==
  [barcodeDetected |-> TRUE,
   detectionFlashRef |-> NextTimerId,
   timers |-> PendingAfterPulse(timers, detectionFlashRef)
                \cup {[id |-> NextTimerId, due |-> now + FlashMs]}]

ShowDetectionFeedback ==
  /\ pulses < MaxPulses
  /\ barcodeDetected' = FeedbackAfterPulse.barcodeDetected
  /\ detectionFlashRef' = FeedbackAfterPulse.detectionFlashRef
  /\ timers' = FeedbackAfterPulse.timers
  /\ pulses' = pulses + 1
  /\ lastPulseAt' = now
  /\ ev' = [op |-> "showDetectionFeedback", pre |-> Pre]
  /\ UNCHANGED <<pageVars, viewVars, decodeVars, dashVars, now, stateVars, camVars, error, scanVars, log, stopCalls,
                 gumCalls, camCalls, startCalls, clearCalls, resetCalls, sinceClear>>

\* the setTimeout callback: setBarcodeDetected(false)
FlashTimeout ==
  \E t \in timers :
    /\ now >= t.due
    /\ barcodeDetected' = FALSE
    /\ timers' = timers \ {t}
    /\ ev' = [op |-> "flashTimeout", id |-> t.id, due |-> t.due]
    /\ UNCHANGED <<pageVars, viewVars, decodeVars, dashVars, now, stateVars, detectionFlashRef, camVars, error,
                   scanVars, log, countVars>>

\* setBarcodeDetected(false), as handleRetry calls it
ClearDetected ==
  /\ barcodeDetected
  /\ barcodeDetected' = FALSE
  /\ ev' = [op |-> "setBarcodeDetected"]
  /\ UNCHANGED <<pageVars, viewVars, decodeVars, dashVars, now, stateVars, detectionFlashRef, timers, camVars, error,
                 scanVars, log, countVars>>

\* ---- useCamera: stopCamera ----------------------------------------------
\* videoRef.current?.srcObject is set
HasStream == videoRef /\ srcObject # 0

\* stopCamera: the cells it writes
CameraAfterStop ==
  IF HasStream
    THEN [tracks |-> [tracks EXCEPT ![srcObject] = "stopped"],
          cameraActive |-> FALSE]
    ELSE [tracks |-> tracks, cameraActive |-> cameraActive]

\* ---- useBarcodeScannerState ---------------------------------------------
\* the window taken in seconds against a clock in milliseconds
ThrottledSeconds(t, last) == t - last < ThrottleMs \div 1000

\* now - lastProcessedTimeRef.current < 2000
Throttled(t, last) == t - last < ThrottleMs

\* the timestamp left as it was by an accepted call
StampNotMarked(t, last) == last

\* lastProcessedTimeRef.current = now, before the try
StampOnAccept(t, last) == t

\* the responses of POST /barcode/process/ and of the transport
Responses ==
  {[kind |-> "detected", code |-> c] : c \in Codes}
    \cup {[kind |-> "nodetect", code |-> Null],
          [kind |-> "nocode", code |-> ""],
          [kind |-> "fail", code |-> Null]}

\* result.detected && result.barcode_code
Detected(r) == r.kind \in {"detected", "nocode"} /\ r.code \notin {Null, ""}

\* ---- useManualBarcodeCapture --------------------------------------------
\* the button left enabled while a request is in flight
CaptureIgnoresFlags == barcodeCode = Null /\ cameraActive

\* CameraView: the Capture button is rendered and not disabled
CaptureEnabled ==
  barcodeCode = Null /\ cameraActive /\ ~loading /\ ~processing

\* any resolved result taken as a success
CaptureAnyResult(result) == result # "threw"

\* the branches of if (result) swapped
CaptureInverted(result) == result = "false"

\* if (result) in captureBarcode
CaptureSucceeded(result) == result = "true"

\* the message dropped and the empty-result text shown for a thrown error
CaptureErrorSwallowed(result, msg) ==
  IF CaptureSucceeded(result) THEN Null ELSE ErrCouldNotRead

\* the message captureBarcode leaves in error for a finished gesture
CaptureError(result, msg) ==
  CASE result = "threw" -> ErrCapturePrefix \o msg
    [] CaptureSucceeded(result) -> Null
    [] OTHER -> ErrCouldNotRead

\* processing cleared on the normal exits only
FlagsKeptOnThrow(result) ==
  [loading |-> FALSE, processing |-> result = "threw"]

\* finally { setLoading(false) } and finally { onSetProcessing(false) }
FlagsAfterGesture(result) == [loading |-> FALSE, processing |-> FALSE]

\* options.pauseHtml5Scanner && html5ScannerRef.current
PausesScanner(mode, scanner) == mode = "html5qrcode" /\ scanner # 0

\* the video element the entry point finds: videoRef.current, or the one
\* an instance rendered into the container that is on the page (there
\* while that instance is running or paused)
HasVideoSource ==
  IF detectionMethod = "html5qrcode"
    THEN /\ container
         /\ \E i \in attached : scanners[i] \in {"running", "paused"}
    ELSE videoRef

\* a gesture that finds no video element: handleManualCapture returns at its
\* first line; captureFromHtml5Scanner throws outside any try, so the
\* promise of handleManualCaptureHtml5 is rejected with nobody to catch it
CaptureWithoutSource ==
  /\ CaptureEnabled
  /\ ~HasVideoSource
  /\ ev' = [op |-> IF detectionMethod = "html5qrcode" THEN "capture.rejected"
                                                     ELSE "capture.noop",
            pre |-> Pre]
  /\ UNCHANGED <<pageVars, viewVars, decodeVars, dashVars, now, stateVars, fbVars, camVars, error,
                 scanVars, log, countVars>>

\* handleManualCapture / handleManualCaptureHtml5 up to the await of the
\* backend call; ctx: canvas.getContext('2d') returned a context
ManualCapture(ctx) ==
  /\ CaptureEnabled
  /\ Len(log) < MaxCaptures
  /\ HasVideoSource
  /\ LET throttled == Throttled(now, lastProcessedTimeRef)
         result == IF throttled THEN "false" ELSE IF ctx THEN "pending" ELSE "threw"
         entry == [at |-> now, mode |-> detectionMethod,
                   scanner |-> html5ScannerRef,
                   epoch |-> resetCalls,
                   accepted |-> ~throttled,
                   request |-> ~throttled /\ ctx,
                   pc |-> IF result = "pending" THEN "backend" ELSE "done",
                   resp |-> "none", code |-> Null, result |-> result,
                   pre |-> Pre]
     IN /\ lastProcessedTimeRef' =
             IF throttled THEN lastProcessedTimeRef
                          ELSE StampOnAccept(now, lastProcessedTimeRef)
        /\ loading' = IF result = "pending" THEN TRUE
                                           ELSE FlagsAfterGesture(result).loading
        /\ processing' = IF result = "pending" THEN TRUE
                                              ELSE FlagsAfterGesture(result).processing
        /\ error' = IF result = "pending" THEN Null
                                          ELSE CaptureError(result, ErrNoContext)
        /\ log' = Append(log, entry)
        /\ ev' = [op |-> IF result = "pending" THEN "capture.request" ELSE "capture.end",
                  i |-> Len(log) + 1, pre |-> Pre]
  /\ UNCHANGED <<pageVars, viewVars, decodeVars, dashVars, now, barcodeCode, fbVars, camVars, scanVars, countVars>>

\* the backend call settles: the rest of processDetectedBarcodeAsync and of
\* captureBarcode; pauseOk: the library's pause() did not throw
BackendRespond(i, r, pauseOk) ==
  /\ i \in 1..Len(log)
  /\ log[i].pc = "backend"
  /\ LET result == IF r.kind = "fail" THEN "threw"
                   ELSE IF Detected(r) THEN "true" ELSE "false"
         ok == CaptureSucceeded(result)
         pause == ok /\ PausesScanner(log[i].mode, log[i].scanner)
         paused == pause /\ pauseOk /\ scanners[log[i].scanner] = "running"
         final == IF pause /\ ~paused THEN "threw" ELSE result
     IN /\ barcodeCode' = IF Detected(r) THEN r.code ELSE barcodeCode
        /\ loading' = FlagsAfterGesture(final).loading
        /\ processing' = FlagsAfterGesture(final).processing
        /\ error' = IF final = "threw"
                      THEN CaptureError(final, IF result = "threw" THEN ErrNetwork ELSE ErrPause)
                      ELSE IF ok THEN error ELSE CaptureError(final, "")
        /\ IF ok
             THEN /\ barcodeDetected' = FeedbackAfterPulse.barcodeDetected
                  /\ detectionFlashRef' = FeedbackAfterPulse.detectionFlashRef
                  /\ timers' = FeedbackAfterPulse.timers
                  /\ pulses' = pulses + 1
                  /\ lastPulseAt' = now
                  /\ tracks' = CameraAfterStop.tracks
                  /\ cameraActive' = CameraAfterStop.cameraActive
                  /\ stopCalls' = stopCalls + 1
             ELSE UNCHANGED <<fbVars, pulses, lastPulseAt, tracks, cameraActive, stopCalls>>
        /\ scanners' = IF paused THEN [scanners EXCEPT ![log[i].scanner] = "paused"]
                                 ELSE scanners
        \* the page renders ResultsView instead of CameraView
        /\ IF Detected(r)
             THEN videoRef' = FALSE /\ srcObject' = 0 /\ listeners' = 0
                  /\ canplayFired' = FALSE /\ container' = FALSE
                  /\ attached' = {}
             ELSE UNCHANGED <<videoRef, srcObject, listeners, canplayFired, container,
                              attached>>
        /\ log' = [log EXCEPT ![i].pc = "done", ![i].resp = r.kind,
                              ![i].code = r.code, ![i].result = final]
        /\ ev' = [op |-> "capture.end", i |-> i, pre |-> Pre]
  /\ UNCHANGED <<pageVars, viewVars, decodeVars, dashVars, now, lastProcessedTimeRef, detectionMethod, camPending,
                 html5ScannerRef, initializingRef, startPending, clearPending,
                 gumCalls, camCalls, startCalls, clearCalls, resetCalls, sinceClear>>

\* the timestamp of the last accepted call kept across a reset
ThrottleKeptOnReset == lastProcessedTimeRef

\* lastProcessedTimeRef.current = 0
ThrottleAfterReset == 0

\* resetState: the cells it writes
ResetStateCells ==
  /\ barcodeCode' = Null
  /\ processing' = FALSE
  /\ lastProcessedTimeRef' = ThrottleAfterReset
  /\ resetCalls' = resetCalls + 1

\* resetState, reached from the results view (Scan Another)
ResetState ==
  /\ barcodeCode # Null
  /\ ResetStateCells
  \* the page renders CameraView again
  /\ videoRef' = (detectionMethod # "html5qrcode")
  /\ container' = (detectionMethod = "html5qrcode")
  /\ ev' = [op |-> "resetState", pre |-> Pre]
  /\ UNCHANGED <<pageVars, viewVars, decodeVars, dashVars, now, loading, fbVars, cameraActive, detectionMethod, srcObject,
                 listeners, canplayFired, tracks, camPending, error,
                 html5ScannerRef, initializingRef, scanners, startPending,
                 clearPending, attached, log, pulses, lastPulseAt, stopCalls, gumCalls,
                 camCalls, startCalls, clearCalls, sinceClear>>

\* ---- the Scanner State Controller under capture gestures ----------------
\* the camera is up: either strategy, as initializeCamera / the scanner's
\* ready callback leave it
InitState ==
  /\ InitStateHook /\ InitFeedback /\ InitPageHooks /\ InitView /\ InitDecode
  /\ InitDashboardPage
  /\ error = Null /\ camPending = 0 /\ listeners = 0
  /\ stopCalls = 0 /\ gumCalls = 1 /\ camCalls = 1
  /\ initializingRef = FALSE /\ startPending = {} /\ clearPending = <<>>
  /\ clearCalls = 0
  /\ cameraActive = TRUE
  /\ \/ /\ detectionMethod = "barcodedetector"
        /\ videoRef = TRUE /\ srcObject = 1 /\ canplayFired = TRUE
        /\ tracks = [s \in Streams |-> IF s = 1 THEN "live" ELSE "none"]
        /\ container = FALSE /\ html5ScannerRef = 0 /\ attached = {}
        /\ scanners = [i \in Scanners |-> "none"]
        /\ startCalls = 0 /\ sinceClear = {}
     \/ /\ detectionMethod = "html5qrcode"
        /\ videoRef = FALSE /\ srcObject = 0 /\ canplayFired = FALSE
        /\ tracks = [s \in Streams |-> IF s = 1 THEN "stopped" ELSE "none"]
        /\ container = TRUE /\ html5ScannerRef = 1 /\ attached = {1}
        /\ scanners = [i \in Scanners |-> IF i = 1 THEN "running" ELSE "none"]
        /\ startCalls = 1 /\ sinceClear = {1}
  /\ ev = [op |-> "init"]

TickState == Tick(500)

NextState ==
  \/ \E ctx \in BOOLEAN : ManualCapture(ctx)
  \/ \E i \in 1..MaxCaptures, r \in Responses, p \in BOOLEAN : BackendRespond(i, r, p)
  \/ ResetState
  \/ FlashTimeout
  \/ TickState

SpecState == InitState /\ [][NextState]_vars

\* ---- useCamera: initializeCamera ------------------------------------------
\* the stream the next granted getUserMedia call returns
NextStream == Cardinality({s \in Streams : tracks[s] # "none"}) + 1

\* how the probe of the native detector can end: the constructor works,
\* 'BarcodeDetector' is not in window, or the constructor throws
Probes == {"ok", "absent", "throws"}

\* isSupported after the probe
IsSupported(probe) == probe = "ok"

\* the fallback keeps the granted stream running
TracksKeptOnFallback(probe, video) == "live"

\* the tracks of the granted stream when initializeCamera returns
TracksAfterGrant(probe, video) ==
  IF IsSupported(probe) THEN "live" ELSE "stopped"

\* detectionMethod when initializeCamera returns after a grant
MethodAfterGrant(probe, video) ==
  IF IsSupported(probe)
    THEN IF video THEN "barcodedetector" ELSE detectionMethod
    ELSE "html5qrcode"

\* a denial that falls back to the library scanner
DeniedFallsBack ==
  [error |-> ErrCamera, detectionMethod |-> "html5qrcode", settles |-> "resolved"]

\* the catch of initializeCamera: what a rejected getUserMedia leaves
AfterDenied ==
  [error |-> ErrCamera, detectionMethod |-> detectionMethod, settles |-> "resolved"]

\* initializeCamera up to the await of getUserMedia: the cells it writes
InitializeCameraCall ==
  /\ camCalls' = camCalls + 1
  /\ gumCalls' = gumCalls + 1
  /\ camPending' = camPending + 1

\* initializeCamera called on its own
InitializeCamera ==
  /\ camCalls < MaxCamCalls
  /\ InitializeCameraCall
  /\ ev' = [op |-> "initializeCamera.call", pre |-> Pre]
  /\ UNCHANGED <<pageVars, viewVars, decodeVars, dashVars, now, stateVars, fbVars, cameraActive, detectionMethod, videoRef,
                 srcObject, listeners, canplayFired, tracks, error, scanVars,
                 log, pulses, lastPulseAt, stopCalls, startCalls, clearCalls,
                 resetCalls, sinceClear>>

\* getUserMedia rejects: the catch block
GumDenied ==
  /\ camPending > 0
  /\ camPending' = camPending - 1
  /\ error' = AfterDenied.error
  /\ detectionMethod' = AfterDenied.detectionMethod
  /\ ev' = [op |-> "initializeCamera.denied", settles |-> AfterDenied.settles,
            pre |-> Pre]
  /\ UNCHANGED <<pageVars, viewVars, decodeVars, dashVars, now, stateVars, fbVars, cameraActive, videoRef, srcObject,
                 listeners, canplayFired, tracks, scanVars, log, countVars>>

\* getUserMedia resolves: the probe and the rest of initializeCamera
GumGranted(probe) ==
  /\ camPending > 0
  /\ NextStream \in Streams
  /\ camPending' = camPending - 1
  /\ LET s == NextStream
         attach == IsSupported(probe) /\ videoRef
         method == MethodAfterGrant(probe, videoRef)
     IN /\ tracks' = [tracks EXCEPT ![s] = TracksAfterGrant(probe, videoRef)]
        /\ detectionMethod' = method
        \* CameraView renders the scanner container instead of the video
        /\ IF method = "html5qrcode"
             THEN /\ videoRef' = FALSE /\ srcObject' = 0 /\ listeners' = 0
                  /\ canplayFired' = FALSE
                  /\ container' = (barcodeCode = Null)
             ELSE /\ videoRef' = videoRef
                  /\ srcObject' = IF attach THEN s ELSE srcObject
                  /\ listeners' = IF attach THEN listeners + 1 ELSE listeners
                  /\ canplayFired' = IF attach THEN FALSE ELSE canplayFired
                  /\ container' = container
        /\ ev' = [op |-> "initializeCamera.granted", probe |-> probe,
                  stream |-> s, video |-> videoRef, pre |-> Pre]
  /\ UNCHANGED <<pageVars, viewVars, decodeVars, dashVars, now, stateVars, fbVars, cameraActive, error, html5ScannerRef,
                 initializingRef, scanners, startPending, clearPending, attached, log,
                 countVars>>

\* the video element emits canplay: every handleCanPlay runs and removes itself
CanPlay ==
  /\ HasStream
  /\ tracks[srcObject] = "live"
  /\ ~canplayFired
  /\ canplayFired' = TRUE
  /\ cameraActive' = IF listeners > 0 THEN TRUE ELSE cameraActive
  /\ listeners' = 0
  /\ ev' = [op |-> "canplay", pre |-> Pre]
  /\ UNCHANGED <<pageVars, viewVars, decodeVars, dashVars, now, stateVars, fbVars, detectionMethod, videoRef, srcObject,
                 tracks, camPending, error, scanVars, log, countVars>>

\* stopCamera called on its own
StopCamera ==
  /\ stopCalls < MaxStopCalls
  /\ stopCalls' = stopCalls + 1
  /\ tracks' = CameraAfterStop.tracks
  /\ cameraActive' = CameraAfterStop.cameraActive
  /\ ev' = [op |-> "stopCamera", pre |-> Pre]
  /\ UNCHANGED <<pageVars, viewVars, decodeVars, dashVars, now, stateVars, fbVars, detectionMethod, videoRef, srcObject,
                 listeners, canplayFired, camPending, error, scanVars, log,
                 pulses, lastPulseAt, gumCalls, camCalls, startCalls, clearCalls,
                 resetCalls, sinceClear>>

\* the page stops rendering the video element (videoRef.current = null)
VideoUnmount ==
  /\ videoRef
  /\ videoRef' = FALSE /\ srcObject' = 0 /\ listeners' = 0
  /\ canplayFired' = FALSE
  /\ ev' = [op |-> "video.unmount"]
  /\ UNCHANGED <<pageVars, viewVars, decodeVars, dashVars, now, stateVars, fbVars, cameraActive, detectionMethod, tracks,
                 camPending, error, scanVars, log, countVars>>

\* the page renders a fresh video element
VideoMount ==
  /\ ~videoRef
  /\ detectionMethod # "html5qrcode"
  /\ videoRef' = TRUE
  /\ ev' = [op |-> "video.mount"]
  /\ UNCHANGED <<pageVars, viewVars, decodeVars, dashVars, now, stateVars, fbVars, cameraActive, detectionMethod, srcObject,
                 listeners, canplayFired, tracks, camPending, error, scanVars,
                 log, countVars>>

\* ---- the Camera Session Manager alone -----------------------------------
NextCamera ==
  \/ InitializeCamera
  \/ GumDenied
  \/ \E probe \in Probes : GumGranted(probe)
  \/ CanPlay
  \/ StopCamera
  \/ VideoUnmount
  \/ VideoMount

SpecCamera == Init /\ [][NextCamera]_vars

\* ---- useHtml5Scanner ------------------------------------------------------
\* the instance the next new Html5Qrcode(...) creates
NextScanner == Cardinality({i \in Scanners : scanners[i] # "none"}) + 1

\* only the stored instance is looked at, not a start in progress
StartSkippedByRef == html5ScannerRef # 0

\* if (initializingRef.current || html5ScannerRef.current) return
StartSkipped == initializingRef \/ html5ScannerRef # 0

\* the reference dropped only when the library's clear() worked
RefKeptOnFailure(cleared) == IF cleared THEN 0 ELSE html5ScannerRef

\* finally { html5ScannerRef.current = null } of clearScanner
RefAfterClear(cleared) == 0

\* the in-progress flag left set by a call that threw
InProgressKeptOnThrow == TRUE

\* finally { initializingRef.current = false }
InProgressAfterThrow == FALSE

\* initializeHtml5Scanner up to the await of scanner.start(): the cells it
\* writes
InitializeHtml5ScannerCall ==
  /\ startCalls' = startCalls + 1
  /\ IF StartSkipped
       THEN /\ ev' = [op |-> "initializeHtml5Scanner.skipped", pre |-> Pre]
            /\ UNCHANGED <<html5ScannerRef, initializingRef, scanners,
                           startPending, sinceClear, attached>>
       ELSE IF ~container
         THEN \* throw new Error('Scanner container not found in DOM')
              /\ html5ScannerRef' = 0
              /\ initializingRef' = InProgressAfterThrow
              /\ ev' = [op |-> "initializeHtml5Scanner.threw", noContainer |-> TRUE,
                        pre |-> Pre]
              /\ UNCHANGED <<scanners, startPending, sinceClear, attached>>
         ELSE /\ NextScanner \in Scanners
              /\ initializingRef' = TRUE
              /\ scanners' = [scanners EXCEPT ![NextScanner] = "starting"]
              /\ startPending' = startPending \cup {NextScanner}
              /\ sinceClear' = sinceClear \cup {NextScanner}
              \* new Html5Qrcode('barcode-scanner-container')
              /\ attached' = attached \cup {NextScanner}
              /\ ev' = [op |-> "initializeHtml5Scanner.start", pre |-> Pre]
              /\ UNCHANGED html5ScannerRef

\* initializeHtml5Scanner called on its own
InitializeHtml5Scanner ==
  /\ startCalls < MaxStartCalls
  /\ InitializeHtml5ScannerCall
  /\ UNCHANGED <<pageVars, viewVars, decodeVars, dashVars, now, stateVars, fbVars, camVars, error, clearPending, container,
                 log, pulses, lastPulseAt, stopCalls, gumCalls, camCalls,
                 clearCalls, resetCalls>>

\* scanner.start() settles: the rest of initializeHtml5Scanner;
\* onScannerReady is camera.setCameraActive(true)
StartSettled(i, ok) ==
  /\ i \in startPending
  /\ startPending' = startPending \ {i}
  /\ scanners' = [scanners EXCEPT ![i] = IF ok THEN "running" ELSE "failed"]
  /\ html5ScannerRef' = IF ok THEN i ELSE 0
  /\ cameraActive' = IF ok THEN TRUE ELSE cameraActive
  /\ initializingRef' = FALSE
  /\ ev' = [op |-> IF ok THEN "initializeHtml5Scanner.ready"
                         ELSE "initializeHtml5Scanner.threw",
            noContainer |-> FALSE, pre |-> Pre]
  /\ UNCHANGED <<pageVars, viewVars, decodeVars, dashVars, now, stateVars, fbVars, detectionMethod, videoRef, srcObject,
                 listeners, canplayFired, tracks, camPending, error,
                 clearPending, container, attached, log, countVars>>

\* clearScanner up to the await of stop(): the cells it writes
ClearScannerCall ==
  /\ clearCalls' = clearCalls + 1
  /\ sinceClear' = {}
  /\ clearPending' = IF html5ScannerRef = 0
                       THEN clearPending
                       ELSE Append(clearPending, html5ScannerRef)

\* clearScanner called on its own
ClearScanner ==
  /\ clearCalls < MaxClearCalls
  /\ ClearScannerCall
  /\ ev' = IF html5ScannerRef = 0
             THEN [op |-> "clearScanner.return", stopThrew |-> FALSE,
                   clearThrew |-> FALSE, pre |-> Pre]
             ELSE [op |-> "clearScanner.stop", pre |-> Pre]
  /\ UNCHANGED <<pageVars, viewVars, decodeVars, dashVars, now, stateVars, fbVars, camVars, error, html5ScannerRef,
                 initializingRef, scanners, startPending, container, attached, log,
                 pulses, lastPulseAt, stopCalls, gumCalls, camCalls, startCalls,
                 resetCalls>>

\* stop() settles: the two try blocks of clearScanner. stop() works only on
\* a running or paused instance (and may fail on one); clear() is called on
\* whatever html5ScannerRef.current holds by now and throws on null and on
\* an instance that is still scanning
ClearScannerResume(k, ok) ==
  /\ k \in 1..Len(clearPending)
  /\ LET i == clearPending[k]
         stopped == ok /\ scanners[i] \in {"running", "paused"}
         afterStop == IF stopped THEN [scanners EXCEPT ![i] = "stopped"] ELSE scanners
         cur == html5ScannerRef
         cleared == cur # 0 /\ afterStop[cur] \notin Live
     IN /\ scanners' = IF cleared THEN [afterStop EXCEPT ![cur] = "cleared"]
                                  ELSE afterStop
        /\ html5ScannerRef' = RefAfterClear(cleared)
        /\ ev' = [op |-> "clearScanner.return", stopThrew |-> ~stopped,
                  clearThrew |-> ~cleared, pre |-> Pre]
  /\ clearPending' = SubSeq(clearPending, 1, k - 1)
                       \o SubSeq(clearPending, k + 1, Len(clearPending))
  /\ sinceClear' = {}

\* a clearScanner call nobody chained on resumes from its await
StopSettled(k, ok) ==
  /\ ClearScannerResume(k, ok)
  /\ UNCHANGED <<pageVars, viewVars, decodeVars, dashVars, now, stateVars, fbVars, camVars, error, initializingRef,
                 startPending, container, attached, log, pulses, lastPulseAt, stopCalls,
                 gumCalls, camCalls, startCalls, clearCalls, resetCalls>>

\* the page renders / stops rendering #barcode-scanner-container
ContainerMount ==
  /\ ~container
  /\ container' = TRUE
  /\ ev' = [op |-> "container.mount"]
  /\ UNCHANGED <<pageVars, viewVars, decodeVars, dashVars, now, stateVars, fbVars, camVars, error, html5ScannerRef,
                 initializingRef, scanners, startPending, clearPending, attached, log,
                 countVars>>

ContainerUnmount ==
  /\ container
  /\ container' = FALSE /\ attached' = {}
  /\ ev' = [op |-> "container.unmount"]
  /\ UNCHANGED <<pageVars, viewVars, decodeVars, dashVars, now, stateVars, fbVars, camVars, error, html5ScannerRef,
                 initializingRef, scanners, startPending, clearPending, log,
                 countVars>>

\* ---- the Library Scanner Adapter alone ----------------------------------
NextScannerAdapter ==
  \/ InitializeHtml5Scanner
  \/ \E i \in Scanners, ok \in BOOLEAN : StartSettled(i, ok)
  \/ ClearScanner
  \/ \E k \in 1..MaxClearCalls, ok \in BOOLEAN : StopSettled(k, ok)
  \/ ContainerMount
  \/ ContainerUnmount

SpecScanner == Init /\ [][NextScannerAdapter]_vars

\* ---- the Detection Feedback Controller alone ----------------------------
TickFeedback == Tick(100)

NextFeedback ==
  \/ ShowDetectionFeedback
  \/ FlashTimeout
  \/ ClearDetected
  \/ TickFeedback

SpecFeedback == Init /\ [][NextFeedback]_vars

\* ---- BarcodePage ------------------------------------------------------
\* the page is shown and its mount effect has run
OnPage == mounted /\ route = "barcode"

\* the token check skipped
TokenIgnored == TRUE

\* localStorage.getItem('accessToken') returned a token
HasToken == token

\* the mount effect: redirect without a token, else initializeCamera()
MountEffect ==
  /\ ~mounted /\ route = "barcode"
  /\ mounted' = TRUE
  /\ IF HasToken
       THEN /\ route' = route
            /\ InitializeCameraCall
       ELSE /\ route' = "/login"
            /\ UNCHANGED <<camCalls, gumCalls, camPending>>
  /\ ev' = [op |-> "mount", pre |-> Pre]
  /\ UNCHANGED <<token, effectActive, pageTimers, retryCalls, viewVars, decodeVars, dashVars, now,
                 stateVars, fbVars, cameraActive, detectionMethod, videoRef,
                 srcObject, listeners, canplayFired, tracks, error, scanVars,
                 log, pulses, lastPulseAt, stopCalls, startCalls, clearCalls,
                 resetCalls, sinceClear>>

\* whether the browser has a working BarcodeDetector does not change while
\* the page is open: a later probe ends as the one that chose the strategy
ProbeConsistent(probe) ==
  detectionMethod # Null => (probe = "ok") = (detectionMethod = "barcodedetector")

\* the adapter's effect on detectionMethodActive becoming true:
\* setTimeout(initializeHtml5Scanner, 100)
ScannerEffect ==
  /\ OnPage
  /\ detectionMethod = "html5qrcode" /\ ~effectActive
  /\ effectActive' = TRUE
  /\ pageTimers' = Append(pageTimers, [kind |-> "effect", due |-> now + InitDelayMs])
  /\ ev' = [op |-> "scannerEffect"]
  /\ UNCHANGED <<route, token, mounted, retryCalls, viewVars, decodeVars, dashVars, now, stateVars,
                 fbVars, camVars, error, scanVars, log, countVars>>

\* a setTimeout(..., 100) callback runs: initializeHtml5Scanner()
InitTimerFires(j) ==
  /\ j \in 1..Len(pageTimers)
  /\ now >= pageTimers[j].due
  /\ startCalls < MaxStartCalls
  /\ pageTimers' = SubSeq(pageTimers, 1, j - 1)
                     \o SubSeq(pageTimers, j + 1, Len(pageTimers))
  /\ InitializeHtml5ScannerCall
  /\ UNCHANGED <<route, token, mounted, effectActive, retryCalls, viewVars, decodeVars, dashVars, now,
                 stateVars, fbVars, camVars, error, clearPending, container,
                 log, pulses, lastPulseAt, stopCalls, gumCalls, camCalls,
                 clearCalls, resetCalls>>

\* the clearScanner call of handleRetry resumes from its await and returns:
\* .then(() => setTimeout(initializeHtml5Scanner, 100))
RetryClearSettled(k, ok) ==
  /\ ClearScannerResume(k, ok)
  /\ pageTimers' = Append(pageTimers, [kind |-> "retry", due |-> now + InitDelayMs])
  /\ UNCHANGED <<route, token, mounted, effectActive, retryCalls, viewVars, decodeVars, dashVars, now,
                 stateVars, fbVars, camVars, error, initializingRef,
                 startPending, container, attached, log, pulses, lastPulseAt, stopCalls,
                 gumCalls, camCalls, startCalls, clearCalls, resetCalls>>

\* html5Scanner.html5ScannerRef.current && camera.detectionMethod === 'html5qrcode'
RetryClearsScanner == html5ScannerRef # 0 /\ detectionMethod = "html5qrcode"

\* handleRetry: the cells it writes
HandleRetryCall ==
  /\ OnPage
  /\ retryCalls < MaxRetries
  /\ retryCalls' = retryCalls + 1
  /\ ResetStateCells
  /\ barcodeDetected' = FALSE
  /\ error' = Null
  /\ IF RetryClearsScanner
       THEN /\ clearCalls < MaxClearCalls
            /\ ClearScannerCall
            /\ UNCHANGED <<camCalls, gumCalls, camPending>>
       ELSE /\ camCalls < MaxCamCalls
            /\ InitializeCameraCall
            /\ UNCHANGED <<clearCalls, sinceClear, clearPending>>
  \* with a barcode stored the page goes from ResultsView back to CameraView
  /\ IF barcodeCode # Null
       THEN /\ videoRef' = (detectionMethod # "html5qrcode")
            /\ srcObject' = 0 /\ listeners' = 0 /\ canplayFired' = FALSE
            /\ container' = (detectionMethod = "html5qrcode")
       ELSE UNCHANGED <<videoRef, srcObject, listeners, canplayFired, container>>
  /\ UNCHANGED <<route, token, mounted, effectActive, pageTimers, decodeVars, dashVars, now,
                 loading, detectionFlashRef, timers, cameraActive,
                 detectionMethod, tracks, html5ScannerRef, initializingRef,
                 scanners, startPending, attached, log, pulses, lastPulseAt,
                 stopCalls, startCalls>>

\* handleRetry
HandleRetry ==
  /\ HandleRetryCall
  /\ ev' = [op |-> "handleRetry", cleared |-> RetryClearsScanner, pre |-> Pre]
  /\ UNCHANGED viewVars

\* onScanAnother of ResultsView, the caller of handleRetry
ScanAnother == barcodeCode # Null /\ HandleRetry

\* the due times of the pending timers
PendingDues ==
  {t.due : t \in timers \cup saveTimers}
    \cup {pageTimers[j].due : j \in 1..Len(pageTimers)}

\* time passes up to the next pending timer, or by the throttle window when
\* none is pending
TickPage ==
  IF PendingDues = {}
    THEN Tick(ThrottleMs)
    ELSE \E d \in PendingDues :
           /\ d > now
           /\ \A e \in PendingDues : e >= d
           /\ Tick(d - now)

InitPage ==
  /\ InitStateHook /\ InitFeedback /\ InitCamera /\ InitScanner /\ InitView
  /\ InitDecode /\ InitDashboardPage
  /\ route = "barcode" /\ token \in BOOLEAN /\ mounted = FALSE
  /\ effectActive = FALSE /\ pageTimers = <<>> /\ retryCalls = 0
  /\ videoRef = TRUE /\ container = FALSE
  /\ ev = [op |-> "init"]

NextPage ==
  \/ MountEffect
  \/ GumDenied
  \/ \E probe \in Probes : ProbeConsistent(probe) /\ GumGranted(probe)
  \/ CanPlay
  \/ ScannerEffect
  \/ \E j \in 1..(MaxRetries + 1) : InitTimerFires(j)
  \/ \E i \in Scanners, ok \in BOOLEAN : StartSettled(i, ok)
  \/ \E k \in 1..MaxClearCalls, ok \in BOOLEAN : RetryClearSettled(k, ok)
  \/ \E ctx \in BOOLEAN : Len(log) < MaxPageCaptures /\ ManualCapture(ctx)
  \/ CaptureWithoutSource
  \/ \E i \in 1..MaxCaptures, r \in Responses, p \in BOOLEAN : BackendRespond(i, r, p)
  \/ FlashTimeout
  \/ ScanAnother
  \/ TickPage

SpecPage == InitPage /\ [][NextPage]_vars

\* the retry action taken from any state of the scanning page (no capture
\* gestures)
NextRetry ==
  \/ MountEffect
  \/ GumDenied
  \/ \E probe \in Probes : ProbeConsistent(probe) /\ GumGranted(probe)
  \/ CanPlay
  \/ ScannerEffect
  \/ \E j \in 1..(MaxRetries + 1) : InitTimerFires(j)
  \/ \E i \in Scanners, ok \in BOOLEAN : StartSettled(i, ok)
  \/ \E k \in 1..MaxClearCalls, ok \in BOOLEAN : RetryClearSettled(k, ok)
  \/ HandleRetry
  \/ TickPage

SpecRetry == InitPage /\ [][NextRetry]_vars

\* ---- ResultsView ---------------------------------------------------------
\* everything outside the view
outsideView == <<now, stateVars, fbVars, camVars, error, scanVars, log,
                 countVars, pageVars, decodeVars, dashVars>>

\* the page renders ResultsView
ViewShown == OnPage /\ barcodeCode # Null

\* the Save button rendered whatever the flags
SaveAlwaysEnabled == step = "edit-item"

\* the form's Save button is rendered (step edit-item, buttons hidden when
\* success) and not disabled (disabled={saving})
SaveEnabled == step = "edit-item" /\ ~success /\ ~saving

\* handleConfirmUPC up to the await of lookupProductByUPC; empty: the
\* trimmed UPC field is empty
ConfirmUPC(empty) ==
  /\ ViewShown /\ ~viewLoading
  /\ IF empty
       THEN /\ viewError' = "UPC cannot be empty"
            /\ UNCHANGED viewLoading
       ELSE /\ viewLoading' = TRUE
            /\ viewError' = Null
  /\ ev' = [op |-> "confirmUPC", pre |-> Pre]
  /\ UNCHANGED <<outsideView, step, saving, success, savePc, saveTimers,
                 saveCalls, scanAnotherCalls, serverVars>>

\* lookupProductByUPC settles: the rest of handleConfirmUPC
LookupSettled(ok) ==
  /\ ViewShown /\ viewLoading
  /\ viewLoading' = FALSE
  /\ IF ok
       THEN step' = "edit-item" /\ UNCHANGED viewError
       ELSE viewError' = "Failed to lookup product" /\ UNCHANGED step
  /\ ev' = [op |-> "confirmUPC.end", pre |-> Pre]
  /\ UNCHANGED <<outsideView, saving, success, savePc, saveTimers, saveCalls,
                 scanAnotherCalls, serverVars>>

\* the form's Close button
CloseForm ==
  /\ ViewShown /\ SaveEnabled
  /\ step' = "confirm-upc"
  /\ ev' = [op |-> "closeForm", pre |-> Pre]
  /\ UNCHANGED <<outsideView, saving, success, viewError, viewLoading, savePc,
                 saveTimers, saveCalls, scanAnotherCalls, serverVars>>

\* handleSaveItem up to the await of createItem; valid: barcode and title
\* are filled in
SaveItem(valid) ==
  /\ ViewShown /\ SaveEnabled
  /\ saveCalls < MaxSaves
  /\ IF valid
       THEN /\ saving' = TRUE
            /\ viewError' = Null
            /\ savePc' = "create"
            /\ saveCalls' = saveCalls + 1
            /\ ev' = [op |-> "save.submit", pre |-> Pre]
       ELSE /\ viewError' = "Title is required"
            /\ ev' = [op |-> "save.invalid", pre |-> Pre]
            /\ UNCHANGED <<saving, savePc, saveCalls>>
  /\ UNCHANGED <<outsideView, step, success, viewLoading, saveTimers,
                 scanAnotherCalls, serverVars>>

\* catch of handleSaveItem
SaveFailed ==
  /\ viewError' = "Failed to create item"
  /\ saving' = FALSE
  /\ savePc' = "idle"
  /\ ev' = [op |-> "save.failed", stage |-> savePc, pre |-> Pre]
  /\ UNCHANGED <<success, saveTimers>>

\* createItem settles; handleSaveItem goes on to await addItemToUser
CreateSettled(ok) ==
  /\ savePc = "create"
  /\ IF ok
       THEN /\ savePc' = "add"
            /\ itemsCreated' = itemsCreated + 1
            /\ ev' = [op |-> "save.created", pre |-> Pre]
            /\ UNCHANGED <<saving, success, viewError, saveTimers>>
       ELSE SaveFailed /\ UNCHANGED itemsCreated
  /\ UNCHANGED <<outsideView, step, viewLoading, saveCalls, scanAnotherCalls,
                 itemsOwned>>

\* the result of addItemToUser not looked at
AddOutcomeIgnored(ok) == TRUE

\* await addItemToUser(...) resolved; a rejection goes to the catch
AddSucceeded(ok) == ok

\* addItemToUser settles: setSuccess(true) and setTimeout(..., 2000)
AddSettled(ok) ==
  /\ savePc = "add"
  /\ itemsOwned' = IF ok THEN itemsOwned + 1 ELSE itemsOwned
  /\ IF AddSucceeded(ok)
       THEN /\ success' = TRUE
            /\ saveTimers' = saveTimers \cup {[due |-> now + SaveDelayMs]}
            /\ savePc' = "idle"
            /\ ev' = [op |-> "save.succeeded", pre |-> Pre]
            /\ UNCHANGED <<saving, viewError>>
       ELSE SaveFailed
  /\ UNCHANGED <<outsideView, step, viewLoading, saveCalls, scanAnotherCalls,
                 itemsCreated>>

\* the setTimeout callback of handleSaveItem: the view's cells are set back
\* and onScanAnother (handleRetry) runs; the page then renders CameraView
\* and the view is unmounted, a lookup still in flight ending in nothing
SaveTimerFires ==
  \E t \in saveTimers :
    /\ now >= t.due
    /\ saveTimers' = saveTimers \ {t}
    /\ step' = "confirm-upc"
    /\ success' = FALSE
    /\ saving' = FALSE
    /\ scanAnotherCalls' = scanAnotherCalls + 1
    /\ viewLoading' = FALSE
    /\ HandleRetryCall
    /\ ev' = [op |-> "save.timer", due |-> t.due, pre |-> Pre]
    /\ UNCHANGED <<viewError, savePc, saveCalls, serverVars>>

\* the page with the results view: captures lead to it, the save flow and
\* its timer lead back to scanning
NextResults ==
  \/ MountEffect
  \/ GumDenied
  \/ \E probe \in Probes : ProbeConsistent(probe) /\ GumGranted(probe)
  \/ CanPlay
  \/ ScannerEffect
  \/ \E j \in 1..(MaxRetries + 1) : InitTimerFires(j)
  \/ \E i \in Scanners, ok \in BOOLEAN : StartSettled(i, ok)
  \/ \E k \in 1..MaxClearCalls, ok \in BOOLEAN : RetryClearSettled(k, ok)
  \/ \E ctx \in BOOLEAN : Len(log) < MaxPageCaptures /\ ManualCapture(ctx)
  \/ \E i \in 1..MaxCaptures, r \in Responses, p \in BOOLEAN : BackendRespond(i, r, p)
  \/ FlashTimeout
  \/ \E empty \in BOOLEAN : ConfirmUPC(empty)
  \/ \E ok \in BOOLEAN : LookupSettled(ok)
  \/ CloseForm
  \/ \E valid \in BOOLEAN : SaveItem(valid)
  \/ \E ok \in BOOLEAN : CreateSettled(ok)
  \/ \E ok \in BOOLEAN : AddSettled(ok)
  \/ SaveTimerFires
  \/ TickPage

InitResults == InitPage /\ token

SpecResults == InitResults /\ [][NextResults]_vars

\* ---- the decode callback of the library scanner --------------------------
RECURSIVE SumUpTo(_, _)
SumUpTo(f, n) == IF n = 0 THEN 0 ELSE f[n] + SumUpTo(f, n - 1)

\* decode callbacks delivered so far, over all instances
DecodeCount == SumUpTo(decodes, MaxScanners + 1)

\* scanner.pause(true) inside try/catch: the decode loop is paused unless
\* the call threw
PauseOnDecode(state, pauseOk) == IF pauseOk THEN "paused" ELSE state

\* the success callback passed to scanner.start(): the library decoded a
\* code on instance i; onDetection(decodedText) runs up to the await of its
\* lookup (setLoading(true), setBarcodeCode), then scanner.pause(true)
Decode(i, c, pauseOk) ==
  /\ OnPage
  /\ i \in Scanners /\ scanners[i] = "running"
  /\ DecodeCount < MaxDecodes
  /\ decodes' = [decodes EXCEPT ![i] = @ + 1]
  /\ autoLookups' = [autoLookups EXCEPT ![i] = @ + 1]
  /\ loading' = TRUE
  /\ barcodeCode' = c
  /\ scanners' = [scanners EXCEPT ![i] = PauseOnDecode(scanners[i], pauseOk)]
  \* the page renders ResultsView instead of CameraView
  /\ videoRef' = FALSE /\ srcObject' = 0 /\ listeners' = 0
  /\ canplayFired' = FALSE /\ container' = FALSE /\ attached' = {}
  /\ ev' = [op |-> "decode", i |-> i, pauseThrew |-> ~pauseOk, pre |-> Pre]
  /\ UNCHANGED <<pageVars, viewVars, dashVars, now, processing, lastProcessedTimeRef,
                 fbVars, cameraActive, detectionMethod, tracks, camPending,
                 error, html5ScannerRef, initializingRef, startPending,
                 clearPending, log, countVars>>

\* the lookup of an onDetection settles: finally setLoading(false), then
\* showDetectionFeedback()
AutoLookupSettled(i) ==
  /\ i \in Scanners /\ autoLookups[i] > 0
  /\ autoLookups' = [autoLookups EXCEPT ![i] = @ - 1]
  /\ loading' = FALSE
  /\ barcodeDetected' = FeedbackAfterPulse.barcodeDetected
  /\ detectionFlashRef' = FeedbackAfterPulse.detectionFlashRef
  /\ timers' = FeedbackAfterPulse.timers
  /\ pulses' = pulses + 1
  /\ lastPulseAt' = now
  /\ ev' = [op |-> "decode.end", i |-> i, pre |-> Pre]
  /\ UNCHANGED <<pageVars, viewVars, dashVars, now, barcodeCode, processing,
                 lastProcessedTimeRef, camVars, error, scanVars, log, decodes,
                 stopCalls, gumCalls, camCalls, startCalls, clearCalls,
                 resetCalls, sinceClear>>

\* the page with the library scanner decoding on its own
NextDecode ==
  \/ MountEffect
  \/ GumDenied
  \/ \E probe \in Probes : ProbeConsistent(probe) /\ GumGranted(probe)
  \/ CanPlay
  \/ ScannerEffect
  \/ \E j \in 1..(MaxRetries + 1) : InitTimerFires(j)
  \/ \E i \in Scanners, ok \in BOOLEAN : StartSettled(i, ok)
  \/ \E k \in 1..MaxClearCalls, ok \in BOOLEAN : RetryClearSettled(k, ok)
  \/ \E i \in Scanners, c \in Codes, pauseOk \in BOOLEAN : Decode(i, c, pauseOk)
  \/ \E i \in Scanners : AutoLookupSettled(i)
  \/ FlashTimeout
  \/ ScanAnother
  \/ TickPage

SpecDecode == InitResults /\ [][NextDecode]_vars

\* ---- claims on the Scanner State Controller and the capture gesture ------
Pairs == {p \in (1..Len(log)) \X (1..Len(log)) : p[1] < p[2]}

CloseCalls(i, j) == log[j].at - log[i].at < ThrottleMs

NotProcessed(j) ==
  ~log[j].accepted /\ ~log[j].request /\ log[j].result = "false"

\* C1 as stated: of any two calls of processDetectedBarcodeAsync less than
\* 2000 ms apart, the later one sends no request and returns false.
C1_AnyClosePairThrottled ==
  \A p \in Pairs : CloseCalls(p[1], p[2]) => NotProcessed(p[2])

\* C1 amended: of two calls less than 2000 ms apart of which the earlier was
\* accepted (it passed the throttle), with no resetState between them, the
\* later one sends no request and returns false.
C1_ThrottledAfterAccepted ==
  \A p \in Pairs :
    ( /\ CloseCalls(p[1], p[2])
      /\ log[p[1]].accepted
      /\ log[p[1]].epoch = log[p[2]].epoch )
    => NotProcessed(p[2])

C1_Witness ==
  \E p \in Pairs :
    /\ CloseCalls(p[1], p[2]) /\ log[p[1]].accepted /\ log[p[1]].request
    /\ log[p[1]].epoch = log[p[2]].epoch
    /\ NotProcessed(p[2])

GestureEnded(kind) ==
  ev.op = "capture.end" /\ log[ev.i].resp = kind

\* C9: a manual capture answered {detected: false} ends with the error
\* "Could not read the barcode. Please try again.", the camera not stopped,
\* no feedback pulse fired and the stored barcode value unchanged.
C9_NoDetectionLeavesCamera ==
  GestureEnded("nodetect") =>
    /\ error = ErrCouldNotRead
    /\ stopCalls = log[ev.i].pre.stopCalls
    /\ tracks = log[ev.i].pre.tracks
    /\ cameraActive = log[ev.i].pre.cameraActive
    /\ pulses = log[ev.i].pre.pulses
    /\ barcodeDetected = ev.pre.barcodeDetected
    /\ barcodeCode = log[ev.i].pre.barcodeCode

C9_Witness ==
  /\ GestureEnded("nodetect")
  /\ log[ev.i].request
  /\ cameraActive
  /\ error = ErrCouldNotRead

\* C10: a manual capture answered with a detection and a barcode value ends
\* with the feedback pulse triggered, stopCamera invoked (the attached
\* stream released, the session inactive) and the stored barcode value equal
\* to the backend's barcode_code.
C10_DetectionHandsOff ==
  GestureEnded("detected") =>
    /\ pulses = log[ev.i].pre.pulses + 1
    /\ barcodeDetected
    /\ \E t \in timers : t.id = detectionFlashRef /\ t.due = now + FlashMs
    /\ stopCalls = log[ev.i].pre.stopCalls + 1
    /\ ev.pre.hasStream => ~cameraActive /\ tracks[ev.pre.srcObject] = "stopped"
    /\ barcodeCode = log[ev.i].code
    /\ barcodeCode \in Codes

C10_Witness ==
  /\ GestureEnded("detected")
  /\ ev.pre.hasStream
  /\ barcodeCode = log[ev.i].code
  /\ pulses = 1 /\ stopCalls = 1

\* ---- claims on the Detection Feedback Controller -------------------------
\* C4: a pulse sets barcodeDetected at once; while it is set, exactly one
\* timer is pending, the one of the latest pulse, due 500 ms after it; the
\* timer that resets the flag is that one, firing 500 ms after the latest
\* pulse; an earlier pulse's timer is cancelled and never fires.
C4_FlashResetsAfterLatestPulse ==
  /\ ev.op = "showDetectionFeedback" => barcodeDetected
  /\ barcodeDetected =>
       /\ now <= lastPulseAt + FlashMs
       /\ \E t \in timers : t.id = detectionFlashRef
  /\ \A t \in timers : t.id = detectionFlashRef /\ t.due = lastPulseAt + FlashMs
  /\ ev.op = "flashTimeout" =>
       /\ ev.due = lastPulseAt + FlashMs
       /\ now = ev.due
       /\ ~barcodeDetected /\ timers = {}

\* two pulses 100 ms apart, the flag reset 500 ms after the second
C4_Witness ==
  /\ ev.op = "flashTimeout"
  /\ pulses = 2
  /\ lastPulseAt = StartTime + 100
  /\ now = StartTime + 100 + FlashMs
  /\ ~barcodeDetected

\* ---- claims on the Camera Session Manager --------------------------------
NeverGranted == \A s \in Streams : tracks[s] = "none"

\* C5: a rejected getUserMedia makes initializeCamera resolve with error set
\* to a non-empty message and cameraActive and detectionMethod as they were
\* (false and null as long as no call was ever granted); getUserMedia is
\* called once per initializeCamera call, never again on its own.
C5_DeniedSetsErrorOnly ==
  /\ ev.op = "initializeCamera.denied" =>
       /\ ev.settles = "resolved"
       /\ error = ErrCamera /\ error \notin {Null, ""}
       /\ cameraActive = ev.pre.cameraActive
       /\ detectionMethod = ev.pre.detectionMethod
       /\ gumCalls = ev.pre.gumCalls
  /\ NeverGranted => ~cameraActive /\ detectionMethod = Null
  /\ gumCalls = camCalls

C5_Witness ==
  /\ ev.op = "initializeCamera.denied"
  /\ NeverGranted /\ camPending = 0
  /\ error = ErrCamera /\ ~cameraActive /\ detectionMethod = Null

\* C6 as stated: after a grant with the native detector instantiable,
\* detectionMethod is 'barcodedetector', and the grant itself leaves
\* cameraActive as it was: only a later canplay of the video element sets it.
C6_NativeAfterGrant ==
  (ev.op = "initializeCamera.granted" /\ ev.probe = "ok") =>
    /\ detectionMethod = "barcodedetector"
    /\ cameraActive = ev.pre.cameraActive

\* C7: after a grant with the native detector absent or throwing, every
\* track of the granted stream is stopped, detectionMethod is 'html5qrcode'
\* and error is as it was.
C7_FallbackStopsStream ==
  (ev.op = "initializeCamera.granted" /\ ev.probe \in {"absent", "throws"}) =>
    /\ tracks[ev.stream] = "stopped"
    /\ detectionMethod = "html5qrcode"
    /\ error = ev.pre.error

C7_Witness ==
  /\ ev.op = "initializeCamera.granted" /\ ev.probe = "throws"
  /\ ev.pre.tracks[ev.stream] = "none" /\ tracks[ev.stream] = "stopped"
  /\ detectionMethod = "html5qrcode" /\ error = Null

\* C8 as stated: after every initializeCamera call that was granted,
\* detectionMethod is one of the two strategies, whatever videoRef.current is.
C8_StrategySetAfterGrant ==
  ev.op = "initializeCamera.granted" =>
    detectionMethod \in {"barcodedetector", "html5qrcode"}

\* ---- claims on the Library Scanner Adapter -------------------------------
LiveSinceClear == {i \in sinceClear : scanners[i] \in Live}

StopCameraCalled ==
  ev.op \in {"stopCamera", "capture.end"} /\ stopCalls = ev.pre.stopCalls + 1

\* C11 as stated: once stopCamera has been called, no granted stream has a
\* live track and cameraActive is false, under either strategy and also
\* when cameraActive was set by the library scanner's ready callback.
C11_StopReleasesAndDeactivates ==
  StopCameraCalled =>
    /\ ~cameraActive
    /\ \A s \in Streams : tracks[s] # "live"

\* ---- claims on the in-flight gate and the exits of a gesture -------------
InFlight == {i \in 1..Len(log) : log[i].pc = "backend"}

\* C13: at most one frame-processing request is in flight at any time,
\* however long the backend takes to answer: while one is in flight the
\* Capture button is disabled.
C13_OneRequestInFlight ==
  /\ Cardinality(InFlight) <= 1
  /\ InFlight # {} => ~CaptureEnabled /\ loading /\ processing

\* a request still unanswered after the throttle window has passed
C13_Witness ==
  \E i \in InFlight :
    /\ now - log[i].at >= ThrottleMs
    /\ ~Throttled(now, lastProcessedTimeRef)
    /\ cameraActive /\ barcodeCode = Null

\* C14: when a capture gesture ends (detection, empty result or thrown
\* error) loading and processing are both false, and either flag is true
\* only while a request is in flight.
C14_FlagsClearedOnExit ==
  /\ ev.op = "capture.end" => ~loading /\ ~processing
  /\ (loading \/ processing) => InFlight # {}

\* a gesture that ended in the catch of captureBarcode
C14_Witness ==
  /\ ev.op = "capture.end"
  /\ log[ev.i].request /\ log[ev.i].result = "threw"
  /\ error # Null
  /\ ~loading /\ ~processing

\* C15: a failed backend call makes processDetectedBarcodeAsync throw to
\* captureBarcode, which sets error to "Failed to capture barcode: "
\* followed by the failure's message; the barcode value, the camera and the
\* feedback flag are as they were when the gesture started.
C15_BackendFailureSurfaced ==
  GestureEnded("fail") =>
    /\ log[ev.i].result = "threw"
    /\ error = ErrCapturePrefix \o ErrNetwork
    /\ barcodeCode = log[ev.i].pre.barcodeCode
    /\ stopCalls = log[ev.i].pre.stopCalls
    /\ tracks = log[ev.i].pre.tracks
    /\ cameraActive = log[ev.i].pre.cameraActive
    /\ pulses = log[ev.i].pre.pulses
    /\ barcodeDetected = ev.pre.barcodeDetected

C15_Witness ==
  /\ GestureEnded("fail")
  /\ log[ev.i].request
  /\ error = ErrCapturePrefix \o ErrNetwork
  /\ cameraActive /\ barcodeCode = Null

\* C16 as stated: a throw of the library's pause after a successful manual
\* capture does not set the error shown by the page: a gesture that ended
\* with a detection leaves error null.
C16_PauseFailureNotSurfaced ==
  GestureEnded("detected") => error = Null

\* ---- claims on the retry action and the page ----------------------------
\* the first gesture of its epoch that called processDetectedBarcodeAsync
FirstOfEpoch(i) == \A j \in 1..(i - 1) : log[j].epoch # log[i].epoch

\* C12: handleRetry leaves the throttle timestamp at zero and the barcode
\* value and the error null; the first capture after it is not throttled,
\* and a capture answered with a detection ends in the same state whether
\* it is the first one or follows a retry: the backend's code stored, the
\* throttle timestamp at the time of the capture, both flags false, the
\* feedback flag set, and error null unless the library's pause threw.
C12_RetryThenCaptureAsFirst ==
  /\ ev.op = "handleRetry" =>
       lastProcessedTimeRef = 0 /\ barcodeCode = Null /\ error = Null
  /\ \A i \in 1..Len(log) : FirstOfEpoch(i) => log[i].accepted
  /\ GestureEnded("detected") =>
       /\ barcodeCode = log[ev.i].code
       /\ lastProcessedTimeRef = log[ev.i].at
       /\ ~loading /\ ~processing
       /\ barcodeDetected
       /\ error = IF log[ev.i].result = "threw" THEN ErrCapturePrefix \o ErrPause
                                                ELSE Null

\* a detection after a retry, less than 2000 ms after the capture before it
C12_Witness ==
  /\ GestureEnded("detected")
  /\ ev.i = 2 /\ log[2].epoch = 1 /\ log[1].accepted
  /\ log[2].at - log[1].at < ThrottleMs
  /\ barcodeCode = log[2].code /\ error = Null

\* C17 as stated: a capture gesture that finds no video element ends with
\* an error message set.
C17_MissingSourceReported ==
  ev.op \in {"capture.rejected", "capture.noop"} => error # Null

\* something is under way that ends with the active strategy scanning: for
\* the library strategy a clearScanner that chains the new start, a pending
\* init timer, an awaited start or the adapter's effect still to run; for the
\* native one an awaited getUserMedia
RestartUnderWay ==
  IF detectionMethod = "html5qrcode"
    THEN \/ clearPending # <<>> \/ pageTimers # <<>>
         \/ startPending # {} \/ ~effectActive
    ELSE camPending > 0

\* C18 as stated: from any page state handleRetry resets the controller,
\* the feedback flag and the error, and leaves the restart of the active
\* strategy under way, also when the library strategy is active with no
\* instance stored.
C18_RetryRestartsStrategy ==
  ev.op = "handleRetry" =>
    /\ barcodeCode = Null /\ lastProcessedTimeRef = 0
    /\ ~barcodeDetected /\ error = Null
    /\ RestartUnderWay

\* C19: a mount without a token redirects to /login and nothing follows on
\* this page: initializeCamera and getUserMedia are never called and
\* detectionMethod stays null.
C19_NoTokenNoCamera ==
  /\ (mounted /\ ~token) => route = "/login"
  /\ route = "/login" =>
       /\ camCalls = 0 /\ gumCalls = 0 /\ camPending = 0
       /\ detectionMethod = Null /\ ~cameraActive
  /\ ~token => camCalls = 0

C19_Witness ==
  /\ mounted /\ ~token /\ route = "/login"
  /\ now > StartTime
  /\ camCalls = 0 /\ detectionMethod = Null

\* ---- claims on the results view ------------------------------------------
\* C20: after createItem and addItemToUser both succeeded the view shows the
\* saved confirmation with one timer pending, due 2000 ms later; when it
\* fires the step is back at confirm-upc, success and saving are cleared,
\* onScanAnother (handleRetry) has run once and the page is back at
\* scanning; no timer is left, and no save is submitted while the
\* confirmation is shown.
C20_AutoResetOnce ==
  /\ success => /\ ViewShown /\ saving /\ savePc = "idle"
                /\ Cardinality(saveTimers) = 1
  /\ ~success => saveTimers = {}
  /\ ev.op = "save.succeeded" => saveTimers = {[due |-> now + SaveDelayMs]}
  /\ ev.op = "save.timer" =>
       /\ now = ev.due /\ ev.pre.success
       /\ step = "confirm-upc" /\ ~success /\ ~saving
       /\ scanAnotherCalls = ev.pre.scanAnotherCalls + 1
       /\ retryCalls = ev.pre.retryCalls + 1
       /\ barcodeCode = Null /\ saveTimers = {}
  /\ ev.op = "save.submit" => ~ev.pre.success /\ ev.pre.saveTimers = {}
  /\ scanAnotherCalls + Cardinality(saveTimers) <= saveCalls

\* the timer of the first successful save has just fired
C20_Witness ==
  /\ ev.op = "save.timer" /\ now = ev.due
  /\ saveCalls = 1 /\ scanAnotherCalls = 1
  /\ barcodeCode = Null /\ step = "confirm-upc" /\ ~success /\ ~saving

\* ---- claims on the throttle window ----------------------------------------
\* two gestures both reached the backend
BothSent(i, j) == log[i].request /\ log[j].request

\* C21 as stated: over any captures and resets, two attempts that reach the
\* backend are at least 2000 ms apart.
C21_OneSentPerWindow ==
  \A p \in Pairs :
    BothSent(p[1], p[2]) => log[p[2]].at - log[p[1]].at >= ThrottleMs

\* C21 amended: two attempts that reach the backend with no resetState
\* between them are at least 2000 ms apart.
C21_OneSentPerWindowBetweenResets ==
  \A p \in Pairs :
    (BothSent(p[1], p[2]) /\ log[p[1]].epoch = log[p[2]].epoch)
      => log[p[2]].at - log[p[1]].at >= ThrottleMs

\* after a retry: an attempt reached the backend and a later one inside its
\* window was turned away
C21_Witness ==
  \E p \in Pairs :
    /\ log[p[1]].epoch = log[p[2]].epoch /\ log[p[1]].epoch > 0
    /\ log[p[1]].request /\ ~log[p[2]].request /\ ~log[p[2]].accepted
    /\ log[p[2]].at - log[p[1]].at < ThrottleMs

\* the gestures of the current epoch that passed the throttle
AcceptedNow == {i \in 1..Len(log) : log[i].accepted /\ log[i].epoch = resetCalls}

\* C22 as stated: the window starts at the last attempt that ended with a
\* detection; an attempt is turned away only within 2000 ms of such a one.
C22_WindowFromLastDetection ==
  \A j \in 1..Len(log) :
    ~log[j].accepted =>
      \E i \in 1..(j - 1) : /\ log[i].resp = "detected"
                            /\ log[j].at - log[i].at < ThrottleMs

\* C22 amended: the window starts at the last attempt that passed the
\* throttle, whatever its outcome: the timestamp is the time of the last
\* accepted attempt since the last reset (0 when there is none), and an
\* attempt is turned away exactly when it comes within 2000 ms of an
\* accepted one with no reset between.
C22_WindowFromLastAccepted ==
  /\ lastProcessedTimeRef =
       IF AcceptedNow = {} THEN 0
       ELSE log[CHOOSE i \in AcceptedNow : \A k \in AcceptedNow : k <= i].at
  /\ \A j \in 1..Len(log) :
       ~log[j].accepted <=>
         \E i \in 1..(j - 1) : /\ log[i].accepted
                               /\ log[i].epoch = log[j].epoch
                               /\ log[j].at - log[i].at < ThrottleMs

\* an accepted attempt ended without a detection (empty result or backend
\* failure) and the next attempt, inside its window, was turned away
C22_Witness ==
  \E j \in 2..Len(log) :
    /\ log[j - 1].accepted /\ log[j - 1].resp \in {"nodetect", "fail"}
    /\ ~log[j].accepted /\ ~log[j].request
    /\ log[j].at - log[j - 1].at < ThrottleMs

\* ---- claims on the decode callback ---------------------------------------
\* C23 as stated: an instance delivers at most one detection callback and
\* has at most one lookup in flight, whether its pause worked or threw, and
\* a pause that threw leaves the error as it was.
C23_OneCallbackPerInstance ==
  /\ \A i \in Scanners : decodes[i] <= 1 /\ autoLookups[i] <= 1
  /\ ev.op = "decode" => error = ev.pre.error

\* C24: an initializeHtml5Scanner call that finds no
\* #barcode-scanner-container throws to its caller: no instance is created,
\* no start is awaited and no timer scheduled (nothing retries), the
\* reference is null and the in-progress flag cleared, so that the next call
\* is not skipped; a call reaches scanner.start() only with the container
\* in the DOM.
C24_MissingContainerFails ==
  /\ (ev.op = "initializeHtml5Scanner.threw" /\ ev.noContainer) =>
       /\ ~ev.pre.container
       /\ scanners = ev.pre.scanners
       /\ startPending = ev.pre.startPending
       /\ pageTimers = ev.pre.pageTimers
       /\ startCalls = ev.pre.startCalls + 1
       /\ html5ScannerRef = 0 /\ ~initializingRef
       /\ ~StartSkipped
  /\ ev.op = "initializeHtml5Scanner.start" => ev.pre.container

\* a call without the container, made with nothing stored or in progress
C24_Witness ==
  /\ ev.op = "initializeHtml5Scanner.threw" /\ ev.noContainer
  /\ ~container /\ html5ScannerRef = 0 /\ ~initializingRef
  /\ scanners = ev.pre.scanners /\ startPending = {}

\* C25: when createItem succeeded and addItemToUser failed, the created
\* item stays and is not owned, nothing more is requested (no save step is
\* pending), an error message is shown, saving is cleared, the saved
\* confirmation is not shown, no reset timer is pending and onScanAnother
\* was not called: the results view stays.
C25_AddFailureLeavesItemUnowned ==
  /\ (ev.op = "save.failed" /\ ev.stage = "add") =>
       /\ itemsCreated = ev.pre.itemsCreated
       /\ itemsOwned = ev.pre.itemsOwned
       /\ itemsCreated > itemsOwned
       /\ savePc = "idle"
       /\ viewError # Null /\ ~saving /\ ~success
       /\ saveTimers = {}
       /\ scanAnotherCalls = ev.pre.scanAnotherCalls
       /\ ViewShown
  /\ itemsOwned <= itemsCreated
  /\ success => itemsOwned > 0

C25_Witness ==
  /\ ev.op = "save.failed" /\ ev.stage = "add"
  /\ itemsCreated = 1 /\ itemsOwned = 0
  /\ viewError # Null /\ ~saving /\ ~success /\ ViewShown

\* ---- DashboardPage: item list, search, pagination, quick updates ---------
barcodeSide == <<now, stateVars, fbVars, camVars, error, scanVars, log, countVars,
                 pageVars, viewVars, decodeVars>>

DashPre == [updSeq |-> updSeq]

Max(a, b) == IF a >= b THEN a ELSE b
Min(a, b) == IF a <= b THEN a ELSE b

\* Number.isFinite, Math.floor
IsFinite(x) == x.kind = "finite"
Floor(x) == x.halves \div 2
IsInteger(x) == IsFinite(x) /\ x.halves % 2 = 0

\* clamped with Math.max only, the value not floored
ClampedOnly(x) == IF IsFinite(x) THEN (IF x.halves < 2 THEN Num(1) ELSE x) ELSE Num(1)

\* Number.isFinite(nextValue) ? Math.max(1, Math.floor(nextValue)) : 1
Normalized(x) == IF IsFinite(x) THEN Num(Max(1, Floor(x))) ELSE Num(1)

\* typeof item.quantity === 'number' ? item.quantity : 1
QuantityValue(item) == IF item.quantity # 0 THEN item.quantity ELSE 1

\* GET /items/?page=&page_size=&search=
Matching(q) == {i \in ItemIds : q = "" \/ server[i].title = q}
Rank(i, S) == Cardinality({j \in S : j <= i})
PageIds(p, q) ==
  {i \in Matching(q) : Rank(i, Matching(q)) \in ((p - 1) * PageSize + 1)..(p * PageSize)}
Results(p, q) ==
  [k \in 1..Cardinality(PageIds(p, q)) |->
     server[CHOOSE i \in PageIds(p, q) : Rank(i, PageIds(p, q)) = k]]

InCategory(list, c) == SelectSeq(list, LAMBDA it : it.category = c)
Without(list, id) == SelectSeq(list, LAMBDA it : it.id # id)
Replaced(list, updated) ==
  [k \in 1..Len(list) |-> IF list[k].id = updated.id THEN updated ELSE list[k]]

Displayed(id) == \E k \in 1..Len(items) : items[k].id = id
Row(list, id) == list[CHOOSE k \in 1..Len(list) : list[k].id = id]
TotalPages == (totalItems + PageSize - 1) \div PageSize

\* ItemsList renders the rows unless isLoading
RowsShown == user /\ ~itemsLoading

\* the items effect: fetchItems() up to its await
FetchItems(p, q, c) ==
  /\ reqSeq < MaxFetches
  /\ currentPage' = p /\ searchQuery' = q /\ selectedCategory' = c
  /\ itemsLoading' = TRUE
  /\ reqSeq' = reqSeq + 1
  /\ fetches' = fetches \cup {[seq |-> reqSeq + 1, page |-> p, search |-> q,
                               category |-> c]}

\* fetchUser settles; on success the items effect runs
ProfileSettled(ok) ==
  /\ pageLoading
  /\ pageLoading' = FALSE
  /\ IF ok
       THEN /\ user' = TRUE
            /\ FetchItems(currentPage, searchQuery, selectedCategory)
            /\ UNCHANGED dashError
       ELSE /\ dashError' = "Failed to load profile. Please log in again."
            /\ UNCHANGED <<user, dashQuery, dashFetch>>
  /\ ev' = [op |-> "profile", ok |-> ok, pre |-> DashPre]
  /\ UNCHANGED <<server, dashList, dashUpd, barcodeSide>>

\* handleSearch(query): the effect runs when a dependency changed
HandleSearch(q) ==
  /\ user
  /\ q # searchQuery \/ currentPage # 1
  /\ FetchItems(1, q, selectedCategory)
  /\ ev' = [op |-> "search", pre |-> DashPre]
  /\ UNCHANGED <<dashSession, dashList, dashUpd, barcodeSide>>

HandleCategoryChange(c) ==
  /\ user
  /\ c # selectedCategory \/ currentPage # 1
  /\ FetchItems(1, searchQuery, c)
  /\ ev' = [op |-> "category", pre |-> DashPre]
  /\ UNCHANGED <<dashSession, dashList, dashUpd, barcodeSide>>

\* Previous: setCurrentPage(Math.max(1, currentPage - 1))
PreviousPage ==
  /\ user /\ TotalPages > 1 /\ currentPage # 1
  /\ FetchItems(Max(1, currentPage - 1), searchQuery, selectedCategory)
  /\ ev' = [op |-> "page.previous", pre |-> DashPre]
  /\ UNCHANGED <<dashSession, dashList, dashUpd, barcodeSide>>

\* Next: setCurrentPage(Math.min(totalPages, currentPage + 1))
NextPageClick ==
  /\ user /\ TotalPages > 1 /\ currentPage # TotalPages
  /\ FetchItems(Min(TotalPages, currentPage + 1), searchQuery, selectedCategory)
  /\ ev' = [op |-> "page.next", pre |-> DashPre]
  /\ UNCHANGED <<dashSession, dashList, dashUpd, barcodeSide>>

\* a page number button: setCurrentPage(page)
GoToPage(p) ==
  /\ user /\ TotalPages > 1 /\ p \in 1..TotalPages /\ p # currentPage
  /\ FetchItems(p, searchQuery, selectedCategory)
  /\ ev' = [op |-> "page.number", pre |-> DashPre]
  /\ UNCHANGED <<dashSession, dashList, dashUpd, barcodeSide>>

\* getItems settles: the rest of fetchItems
FetchSettled(f, ok) ==
  /\ f \in fetches
  /\ fetches' = fetches \ {f}
  /\ itemsLoading' = FALSE
  /\ IF ok
       THEN /\ items' = IF f.category # ""
                          THEN InCategory(Results(f.page, f.search), f.category)
                          ELSE Results(f.page, f.search)
            /\ totalItems' = Cardinality(Matching(f.search))
            /\ itemsFrom' = f.seq
            /\ maxOk' = Max(maxOk, f.seq)
            /\ UNCHANGED dashError
       ELSE /\ dashError' = "Failed to load items"
            /\ UNCHANGED dashList
  /\ ev' = [op |-> "fetch.end", ok |-> ok, seq |-> f.seq, pre |-> DashPre]
  /\ UNCHANGED <<user, pageLoading, server, dashQuery, reqSeq, dashUpd, barcodeSide>>

\* updateItem(id, data) sent; the handler keeps the items and the
\* selectedCategory of the render it was created in
SendUpdate(kind, id, category, quantity) ==
  /\ updSeq < MaxUpdates
  /\ updSeq' = updSeq + 1
  /\ updates' = updates \cup
                {[seq |-> updSeq + 1, kind |-> kind, id |-> id,
                  category |-> category, quantity |-> quantity,
                  items |-> items, selectedCategory |-> selectedCategory]}
  /\ sentQty' = IF quantity = NoNumber THEN sentQty ELSE sentQty \cup {quantity}

\* handleQuickUpdateQuantity(id, quantity) up to its await
HandleQuickUpdateQuantity(id, quantity) ==
  /\ isUpdatingId' = id
  /\ SendUpdate("quick", id, "", quantity)
  /\ UNCHANGED <<isSavingEdit, editingItem>>

\* ItemRow / ItemCard: handleQuantityChange(nextValue)
HandleQuantityChange(id, nextValue, control) ==
  /\ RowsShown /\ Displayed(id) /\ isUpdatingId # id
  /\ updSeq < MaxUpdates
  /\ IF Normalized(nextValue) = Num(QuantityValue(Row(items, id)))
       THEN /\ ev' = [op |-> "quantity.same", id |-> id, control |-> control,
                      input |-> nextValue,
                      shown |-> QuantityValue(Row(items, id)), pre |-> DashPre]
            /\ UNCHANGED dashUpd
       ELSE /\ HandleQuickUpdateQuantity(id, Normalized(nextValue))
            /\ ev' = [op |-> "quantity.sent", id |-> id, control |-> control,
                      input |-> nextValue, sent |-> Normalized(nextValue),
                      shown |-> QuantityValue(Row(items, id)), pre |-> DashPre]
  /\ UNCHANGED <<dashSession, dashQuery, dashFetch, dashList, barcodeSide>>

\* the - button, disabled when isUpdating or quantityValue <= 1
DecrementClick(id) ==
  /\ Displayed(id)
  /\ ~(QuantityValue(Row(items, id)) <= 1)
  /\ HandleQuantityChange(id, Num(QuantityValue(Row(items, id)) - 1), "decrement")

\* the + button
IncrementClick(id) ==
  /\ Displayed(id)
  /\ HandleQuantityChange(id, Num(QuantityValue(Row(items, id)) + 1), "increment")

\* the number input: handleQuantityChange(Number(e.target.value))
QuantityInput(id, x) == HandleQuantityChange(id, x, "input")

\* handleQuickUpdateCategory(id, category) up to its await; the select
\* fires onChange for another value than the one shown
HandleQuickUpdateCategory(id, c) ==
  /\ RowsShown /\ Displayed(id) /\ isUpdatingId # id
  /\ c # Row(items, id).category
  /\ isUpdatingId' = id
  /\ SendUpdate("quick", id, c, NoNumber)
  /\ ev' = [op |-> "category.sent", id |-> id, pre |-> DashPre]
  /\ UNCHANGED <<isSavingEdit, editingItem, dashSession, dashQuery, dashFetch,
                 dashList, barcodeSide>>

\* onEdit(item): setEditingItem(item)
OpenEdit(id) ==
  /\ RowsShown /\ Displayed(id) /\ editingItem = 0
  /\ editingItem' = id
  /\ ev' = [op |-> "edit.open", id |-> id, pre |-> DashPre]
  /\ UNCHANGED <<updates, updSeq, sentQty, isUpdatingId, isSavingEdit,
                 dashSession, dashQuery, dashFetch, dashList, barcodeSide>>

\* EditItemModal onClose: setEditingItem(null)
CloseEdit ==
  /\ editingItem # 0
  /\ editingItem' = 0
  /\ ev' = [op |-> "edit.close", pre |-> DashPre]
  /\ UNCHANGED <<updates, updSeq, sentQty, isUpdatingId, isSavingEdit,
                 dashSession, dashQuery, dashFetch, dashList, barcodeSide>>

\* handleEditItem(data) up to its await
HandleEditItem(c) ==
  /\ user /\ editingItem # 0 /\ ~isSavingEdit
  /\ isSavingEdit' = TRUE
  /\ SendUpdate("edit", editingItem, c, NoNumber)
  /\ ev' = [op |-> "edit.sent", id |-> editingItem, pre |-> DashPre]
  /\ UNCHANGED <<isUpdatingId, editingItem, dashSession, dashQuery, dashFetch,
                 dashList, barcodeSide>>

\* PUT /items/{id}/ applied by the backend
Applied(item, u) ==
  [item EXCEPT !.category = IF u.category # "" THEN u.category ELSE @,
               !.quantity = IF u.quantity # NoNumber THEN Floor(u.quantity) ELSE @]

\* the list a handler gives to setItems: built from the items of its closure
ListAfterUpdate(u, updated) ==
  IF u.selectedCategory # "" /\ updated.category # u.selectedCategory
    THEN Without(u.items, updated.id)
    ELSE Replaced(u.items, updated)

\* updateItem settles: the rest of handleEditItem / handleQuickUpdate*
UpdateSettled(u, ok) ==
  /\ u \in updates
  /\ updates' = updates \ {u}
  /\ IF ok
       THEN /\ server' = [server EXCEPT ![u.id] = Applied(server[u.id], u)]
            /\ items' = ListAfterUpdate(u, Applied(server[u.id], u))
            /\ editingItem' = IF u.kind = "edit" THEN 0 ELSE editingItem
            /\ UNCHANGED dashError
       ELSE /\ dashError' = "Failed to update item"
            /\ UNCHANGED <<server, items, editingItem>>
  /\ isUpdatingId' = IF u.kind = "quick" THEN 0 ELSE isUpdatingId
  /\ isSavingEdit' = IF u.kind = "edit" THEN FALSE ELSE isSavingEdit
  /\ ev' = [op |-> "update.end", ok |-> ok, id |-> u.id, kind |-> u.kind,
            pre |-> DashPre]
  /\ UNCHANGED <<user, pageLoading, totalItems, itemsFrom, maxOk, updSeq, sentQty,
                 dashQuery, dashFetch, barcodeSide>>

\* the dashboard opened with any stored quantities; the barcode page is
\* not mounted
InitDashboard ==
  /\ InitStateHook /\ InitFeedback /\ InitCamera /\ InitScanner
  /\ InitPageHooks /\ InitView /\ InitDecode
  /\ videoRef = TRUE /\ container = FALSE
  /\ \E qty \in [ItemIds -> InitialQuantities] : DashboardConstructed(qty)
  /\ ev = [op |-> "init"]

\* the list requests alone: search, category filter, pagination
NextItemList ==
  \/ \E ok \in BOOLEAN : ProfileSettled(ok)
  \/ \E q \in Queries : HandleSearch(q)
  \/ \E c \in Categories \cup {""} : HandleCategoryChange(c)
  \/ PreviousPage
  \/ NextPageClick
  \/ \E p \in ItemIds : GoToPage(p)
  \/ \E f \in fetches, ok \in BOOLEAN : FetchSettled(f, ok)

SpecItemList == InitDashboard /\ [][NextItemList]_vars

\* the dashboard with its first page loaded under category filter c and
\* no request in flight: the profile and the list requests have been
\* answered (one list request, or two when a filter was chosen)
DashboardLoaded(qty, c) ==
  /\ user = TRUE /\ pageLoading = FALSE /\ dashError = ""
  /\ server = ServerItems(qty)
  /\ currentPage = 1 /\ searchQuery = "" /\ selectedCategory = c
  /\ items = IF c # "" THEN InCategory(Results(1, ""), c) ELSE Results(1, "")
  /\ totalItems = Cardinality(Matching(""))
  /\ itemsLoading = FALSE /\ fetches = {}
  /\ reqSeq = (IF c # "" THEN 2 ELSE 1)
  /\ itemsFrom = reqSeq /\ maxOk = reqSeq
  /\ updates = {} /\ updSeq = 0 /\ sentQty = {}
  /\ isUpdatingId = 0 /\ isSavingEdit = FALSE /\ editingItem = 0

InitItemUpdates ==
  /\ InitStateHook /\ InitFeedback /\ InitCamera /\ InitScanner
  /\ InitPageHooks /\ InitView /\ InitDecode
  /\ videoRef = TRUE /\ container = FALSE
  /\ \E qty \in [ItemIds -> InitialQuantities], c \in Categories \cup {""} :
       DashboardLoaded(qty, c)
  /\ ev = [op |-> "init"]

\* the updates of the displayed items
NextItemUpdates ==
  \/ \E id \in ItemIds : DecrementClick(id)
  \/ \E id \in ItemIds : IncrementClick(id)
  \/ \E id \in ItemIds, x \in TypedNumbers : QuantityInput(id, x)
  \/ \E id \in ItemIds, c \in Categories : HandleQuickUpdateCategory(id, c)
  \/ \E id \in ItemIds : OpenEdit(id)
  \/ CloseEdit
  \/ \E c \in Categories : HandleEditItem(c)
  \/ \E u \in updates, ok \in BOOLEAN : UpdateSettled(u, ok)

SpecItemUpdates == InitItemUpdates /\ [][NextItemUpdates]_vars

\* C26: every quantity the inline controls send is an integer of at least
\* 1: it is max(1, floor(input)), or 1 for a non-finite input; the decrement
\* button does nothing at quantity 1; and nothing is sent when the
\* normalized value equals the quantity shown.
ClampOf(x) ==
  IF x.kind \in {"NaN", "Infinity", "-Infinity"} THEN 1
  ELSE IF x.halves >= 2 THEN (x.halves - (x.halves % 2)) \div 2 ELSE 1

C26_QuantitySentIsPositiveInteger ==
  /\ \A q \in sentQty : IsInteger(q) /\ q.halves >= 2
  /\ \A u \in updates :
       u.quantity # NoNumber => IsInteger(u.quantity) /\ u.quantity.halves >= 2
  /\ ev.op = "quantity.sent" =>
       /\ ev.sent = Num(ClampOf(ev.input))
       /\ ev.sent # Num(ev.shown)
       /\ ev.sent \in sentQty
       /\ updSeq = ev.pre.updSeq + 1
  /\ ev.op = "quantity.same" =>
       /\ ClampOf(ev.input) = ev.shown
       /\ updSeq = ev.pre.updSeq
  /\ (ev.op \in {"quantity.sent", "quantity.same"} /\ ev.control = "decrement") =>
       /\ ev.shown > 1
       /\ ev.op = "quantity.sent"

C26_Witness ==
  /\ ev.op = "quantity.sent" /\ ev.control = "input"
  /\ ev.input = [kind |-> "finite", halves |-> -1]
  /\ ev.shown = 2 /\ ev.sent = Num(1)
  /\ \E u \in updates : u.id = ev.id /\ u.quantity = Num(1)

\* C29: once no item update is in flight, every displayed row shows what
\* the backend holds for that item, so two updates of different items that
\* were in flight together are both reflected.
C29_ListReflectsBothUpdates ==
  updates = {} => \A k \in 1..Len(items) : items[k] = server[items[k].id]

\* C30: the list displayed is always that of the newest request answered
\* so far, and once every list request has been answered, the newest one
\* with success, the items and the total displayed are those of the current
\* page, search and category.
C30_NewestResponseShown ==
  /\ itemsFrom = maxOk
  /\ (fetches = {} /\ reqSeq > 0 /\ maxOk = reqSeq) =>
       /\ items = IF selectedCategory # ""
                    THEN InCategory(Results(currentPage, searchQuery), selectedCategory)
                    ELSE Results(currentPage, searchQuery)
       /\ totalItems = Cardinality(Matching(searchQuery))

\* C27: once clearScanner has been invoked and no start() and no stop() is
\* awaited any more, no instance created before that clearScanner is still
\* running or paused.
C27_NoLiveInstanceAfterTeardown ==
  (clearCalls > 0 /\ startPending = {} /\ clearPending = <<>>) =>
    \A i \in Scanners \ sinceClear : scanners[i] \notin Live

\* C28: when initializeCamera has been granted a stream and returns, the
\* stream is attached to the video element, where stopCamera finds it, or
\* its tracks are stopped.
C28_GrantedStreamAttachedOrStopped ==
  ev.op = "initializeCamera.granted" =>
    (tracks[ev.stream] = "live" => srcObject = ev.stream)

====
